---- MODULE Spec2Model ----
(***************************************************************************)
(* The task store and query engine of the task management backend:        *)
(*   backend/models/Task.js            the Task record and its validation  *)
(*   backend/services/taskService.js   the in-memory store, getTasks and   *)
(*                                     the statistics                      *)
(* A string is held as its text and read through its UTF-16 code units     *)
(* (Chars), instants are whole hours                                       *)
(* since the epoch, and a Date / date text is a record [kind, t].          *)
(***************************************************************************)
EXTENDS Integers, Sequences, FiniteSets, TLC

VARIABLES tasks, now, nextId, last, calls

vars == <<tasks, now, nextId, last, calls>>

-----------------------------------------------------------------------------
(* Bounds of the model *)

\* createTask is not called on a store that already holds MaxTasks records
MaxTasks == 5

\* number of write operations (each one advances the clock by one hour)
MaxSteps == 2

\* number of records the store is grown to in SpecLarge
MaxStored == 11

-----------------------------------------------------------------------------
(* Program constants *)

\* Task.js:32  this.title.length > 100
MaxTitleLength == 100

\* Task.js:37  this.description.length > 500
MaxDescriptionLength == 500

\* taskService.js:20  24 * 60 * 60 * 1000 ms, in hours
Day == 24

\* taskService.js:110  new Date(9999, 11, 31), in hours since the epoch
SentinelDate == 70389504

\* taskService.js:129  pagination.page || 1
DefaultPage == 1

\* taskService.js:130  pagination.limit || 10
DefaultLimit == 10

\* taskService.js:405  tagCounts[tag]: the digits of the greatest array
\* index, 2^32 - 2 = 4294967294
MaxArrayIndex == <<52, 50, 57, 52, 57, 54, 55, 50, 57, 52>>

\* routes/tasks.js:25  isLength({ min: 1, max: 100 })
MaxSearchLength == 100

\* routes/tasks.js:30  isInt({ min: 1, max: 100 })
MaxLimit == 100

\* Date.now() when the service is constructed (taskService.js:20): 22:00 on
\* the second day, so that the clock can cross midnight
StartTime == Day + 22

-----------------------------------------------------------------------------
(* Strings *)

Min(S) == CHOOSE x \in S : \A y \in S : x <= y

Max(S) == CHOOSE x \in S : \A y \in S : x >= y

\* String.prototype.toLowerCase on the code units of the ASCII letters
ToLowerCase(s) ==
  [i \in 1..Len(s) |-> IF s[i] >= 65 /\ s[i] <= 90 THEN s[i] + 32 ELSE s[i]]

IsSpace(c) == c \in {9, 10, 13, 32}

\* String.prototype.trim
Trim(s) ==
  LET keep == {i \in 1..Len(s) : ~IsSpace(s[i])}
  IN  IF keep = {} THEN << >> ELSE SubSeq(s, Min(keep), Max(keep))

\* String.prototype.includes
Includes(s, t) ==
  \E i \in 0..(Len(s) - Len(t)) : SubSeq(s, i + 1, i + Len(t)) = t

\* a < b on two strings: lexicographic on the code units
StrLess(a, b) ==
  LET n    == IF Len(a) < Len(b) THEN Len(a) ELSE Len(b)
      diff == {i \in 1..n : a[i] # b[i]}
  IN  IF diff = {} THEN Len(a) < Len(b) ELSE a[Min(diff)] < b[Min(diff)]

\* Array.prototype.includes on an array of strings
ArrayIncludes(arr, x) == \E i \in 1..Len(arr) : arr[i] = x

\* A string value is held as its text; Chars gives its UTF-16 code units.

SampleTitle1 == "Complete project documentation"

SampleDescription1 == "Write comprehensive documentation for the task management API"

SampleTitle2 == "Review code changes"

SampleDescription2 == "Perform code review for the latest pull request"

SampleTitle3 == "Setup testing environment"

SampleDescription3 == "Configure Jest and testing framework for the project"

\* a title of 101 characters
LongTitle ==
  "xxxxxxxxxxxxxxxxxxxxxxxxxxxxxxxxxxxxxxxxxxxxxxxxxxxxxxxxxxxxxxxxxxxxxxxxxxxxxxxxxxxxxxxxxxxxxxxxxxxxx"

Chars(s) ==
  CASE s = "" -> << >>
    [] s = SampleTitle1 ->
         <<67, 111, 109, 112, 108, 101, 116, 101, 32, 112, 114, 111,
           106, 101, 99, 116, 32, 100, 111, 99, 117, 109, 101, 110,
           116, 97, 116, 105, 111, 110>>
    [] s = SampleDescription1 ->
         <<87, 114, 105, 116, 101, 32, 99, 111, 109, 112, 114, 101,
           104, 101, 110, 115, 105, 118, 101, 32, 100, 111, 99, 117,
           109, 101, 110, 116, 97, 116, 105, 111, 110, 32, 102, 111,
           114, 32, 116, 104, 101, 32, 116, 97, 115, 107, 32, 109, 97,
           110, 97, 103, 101, 109, 101, 110, 116, 32, 65, 80, 73>>
    [] s = SampleTitle2 ->
         <<82, 101, 118, 105, 101, 119, 32, 99, 111, 100, 101, 32, 99,
           104, 97, 110, 103, 101, 115>>
    [] s = SampleDescription2 ->
         <<80, 101, 114, 102, 111, 114, 109, 32, 99, 111, 100, 101,
           32, 114, 101, 118, 105, 101, 119, 32, 102, 111, 114, 32,
           116, 104, 101, 32, 108, 97, 116, 101, 115, 116, 32, 112,
           117, 108, 108, 32, 114, 101, 113, 117, 101, 115, 116>>
    [] s = SampleTitle3 ->
         <<83, 101, 116, 117, 112, 32, 116, 101, 115, 116, 105, 110,
           103, 32, 101, 110, 118, 105, 114, 111, 110, 109, 101, 110,
           116>>
    [] s = SampleDescription3 ->
         <<67, 111, 110, 102, 105, 103, 117, 114, 101, 32, 74, 101,
           115, 116, 32, 97, 110, 100, 32, 116, 101, 115, 116, 105,
           110, 103, 32, 102, 114, 97, 109, 101, 119, 111, 114, 107,
           32, 102, 111, 114, 32, 116, 104, 101, 32, 112, 114, 111,
           106, 101, 99, 116>>
    [] s = "documentation" -> <<100, 111, 99, 117, 109, 101, 110, 116, 97, 116, 105, 111, 110>>
    [] s = "api" -> <<97, 112, 105>>
    [] s = "code-review" -> <<99, 111, 100, 101, 45, 114, 101, 118, 105, 101, 119>>
    [] s = "quality" -> <<113, 117, 97, 108, 105, 116, 121>>
    [] s = "testing" -> <<116, 101, 115, 116, 105, 110, 103>>
    [] s = "setup" -> <<115, 101, 116, 117, 112>>
    [] s = "alpha" -> <<97, 108, 112, 104, 97>>
    [] s = "New" -> <<78, 101, 119>>
    [] s = "Doc" -> <<68, 111, 99>>
    [] s = "urgent" -> <<117, 114, 103, 101, 110, 116>>
    [] s = "JEST" -> <<74, 69, 83, 84>>
    [] s = "QUALITY" -> <<81, 85, 65, 76, 73, 84, 89>>
    [] s = "doc" -> <<100, 111, 99>>
    [] s = "DOC" -> <<68, 79, 67>>
    [] s = "jest" -> <<106, 101, 115, 116>>
    [] s = "7" -> <<55>>
    [] s = LongTitle -> [i \in 1..(MaxTitleLength + 1) |-> 120]

-----------------------------------------------------------------------------
(* Dates.  kind is "null" (null), "date" (a Date object holding instant t), *)
(* "invalid" (the Invalid Date object), "string" (the ISO text of instant  *)
(* t) or "garbage" (a text that no date can be parsed from).                *)

NullDate == [kind |-> "null", t |-> 0]

DateAt(t) == [kind |-> "date", t |-> t]

InvalidDate == [kind |-> "invalid", t |-> 0]

IsoText(t) == [kind |-> "string", t |-> t]

GarbageText == [kind |-> "garbage", t |-> 0]

\* the value is truthy (everything but null)
Truthy(v) == v.kind # "null"

\* new Date(v)
NewDate(v) ==
  CASE v.kind = "date"   -> DateAt(v.t)
    [] v.kind = "string" -> DateAt(v.t)
    [] OTHER             -> InvalidDate

\* v.toISOString() throws: a RangeError on the Invalid Date, a TypeError on a
\* value that is no Date
ToISOStringThrows(v) == v.kind # "date"

\* v.toISOString() on a valid Date
ToISOString(v) == IsoText(v.t)

-----------------------------------------------------------------------------
(* Task.js *)

Has(data, field) == field \in DOMAIN data

\* Array.isArray on a stored tags value
IsArray(v) == DOMAIN v = 1..Len(v)

\* Task.validate, lines 24-67: the list of violated rules, in the order found
Validate(task) ==
  (IF task.title = "" \/ Len(Trim(Chars(task.title))) = 0
     THEN <<"title_required">> ELSE << >>)
  \o (IF Len(Chars(task.title)) > MaxTitleLength THEN <<"title_length">> ELSE << >>)
  \o (IF task.description # ""
          /\ Len(Chars(task.description)) > MaxDescriptionLength
        THEN <<"description_length">> ELSE << >>)
  \o (IF task.status \notin {"todo", "in_progress", "completed"}
        THEN <<"status">> ELSE << >>)
  \o (IF task.priority \notin {"low", "medium", "high"}
        THEN <<"priority">> ELSE << >>)
  \o (IF Truthy(task.dueDate) /\ task.dueDate.kind = "invalid"
        THEN <<"dueDate">> ELSE << >>)
  \o (IF ~IsArray(task.tags) THEN <<"tags">> ELSE << >>)

\* a constructor whose default priority is low
NewTaskDefaultLow(data, clock, uuid) ==
  LET task ==
        [id          |-> IF Has(data, "id") THEN data.id ELSE uuid,
         title       |-> IF Has(data, "title") /\ data.title # ""
                           THEN data.title ELSE "",
         description |-> IF Has(data, "description") /\ data.description # ""
                           THEN data.description ELSE "",
         status      |-> IF Has(data, "status") /\ data.status # ""
                           THEN data.status ELSE "todo",
         priority    |-> IF Has(data, "priority") /\ data.priority # ""
                           THEN data.priority ELSE "low",
         dueDate     |-> IF Has(data, "dueDate") /\ Truthy(data.dueDate)
                           THEN NewDate(data.dueDate) ELSE NullDate,
         tags        |-> IF Has(data, "tags") /\ data.tags.isArray
                           THEN data.tags.items ELSE << >>,
         createdAt   |-> IF Has(data, "createdAt") /\ Truthy(data.createdAt)
                           THEN data.createdAt ELSE DateAt(clock),
         updatedAt   |-> DateAt(clock)]
  IN  [task |-> task, errors |-> Validate(task)]

\* Task.constructor, lines 5-21: the object built and what validate() found
NewTask(data, clock, uuid) ==
  LET task ==
        [id          |-> IF Has(data, "id") THEN data.id ELSE uuid,
         title       |-> IF Has(data, "title") /\ data.title # ""
                           THEN data.title ELSE "",
         description |-> IF Has(data, "description") /\ data.description # ""
                           THEN data.description ELSE "",
         status      |-> IF Has(data, "status") /\ data.status # ""
                           THEN data.status ELSE "todo",
         priority    |-> IF Has(data, "priority") /\ data.priority # ""
                           THEN data.priority ELSE "medium",
         dueDate     |-> IF Has(data, "dueDate") /\ Truthy(data.dueDate)
                           THEN NewDate(data.dueDate) ELSE NullDate,
         tags        |-> IF Has(data, "tags") /\ data.tags.isArray
                           THEN data.tags.items ELSE << >>,
         createdAt   |-> IF Has(data, "createdAt") /\ Truthy(data.createdAt)
                           THEN data.createdAt ELSE DateAt(clock),
         updatedAt   |-> DateAt(clock)]
  IN  [task |-> task, errors |-> Validate(task)]

\* an update that assigns the id and the creation instant of the data too
UpdateFieldsWithIdentity(task, data, clock) ==
  LET t2 ==
        [id          |-> IF Has(data, "id") THEN data.id ELSE task.id,
         title       |-> IF Has(data, "title") THEN data.title ELSE task.title,
         description |-> IF Has(data, "description")
                           THEN data.description ELSE task.description,
         status      |-> IF Has(data, "status") THEN data.status ELSE task.status,
         priority    |-> IF Has(data, "priority")
                           THEN data.priority ELSE task.priority,
         dueDate     |-> IF Has(data, "dueDate")
                           THEN (IF Truthy(data.dueDate)
                                   THEN NewDate(data.dueDate) ELSE NullDate)
                           ELSE task.dueDate,
         tags        |-> IF Has(data, "tags")
                           THEN (IF data.tags.isArray
                                   THEN data.tags.items ELSE << >>)
                           ELSE task.tags,
         createdAt   |-> IF Has(data, "createdAt")
                           THEN data.createdAt ELSE task.createdAt,
         updatedAt   |-> DateAt(clock)]
  IN  [task |-> t2, errors |-> Validate(t2)]

\* Task.update, lines 70-86: the object after the assignments (made in place,
\* before validate() runs) and what validate() found
UpdateFields(task, data, clock) ==
  LET t2 ==
        [id          |-> task.id,
         title       |-> IF Has(data, "title") THEN data.title ELSE task.title,
         description |-> IF Has(data, "description")
                           THEN data.description ELSE task.description,
         status      |-> IF Has(data, "status") THEN data.status ELSE task.status,
         priority    |-> IF Has(data, "priority")
                           THEN data.priority ELSE task.priority,
         dueDate     |-> IF Has(data, "dueDate")
                           THEN (IF Truthy(data.dueDate)
                                   THEN NewDate(data.dueDate) ELSE NullDate)
                           ELSE task.dueDate,
         tags        |-> IF Has(data, "tags")
                           THEN (IF data.tags.isArray
                                   THEN data.tags.items ELSE << >>)
                           ELSE task.tags,
         createdAt   |-> task.createdAt,
         updatedAt   |-> DateAt(clock)]
  IN  [task |-> t2, errors |-> Validate(t2)]

\* Task.toJSON throws, lines 96-99
ToJSONThrows(task) ==
  \/ (Truthy(task.dueDate) /\ ToISOStringThrows(task.dueDate))
  \/ ToISOStringThrows(task.createdAt)
  \/ ToISOStringThrows(task.updatedAt)

\* Task.toJSON, lines 89-101
ToJSON(task) ==
  [id          |-> task.id,
   title       |-> task.title,
   description |-> task.description,
   status      |-> task.status,
   priority    |-> task.priority,
   dueDate     |-> IF Truthy(task.dueDate)
                     THEN ToISOString(task.dueDate) ELSE NullDate,
   tags        |-> task.tags,
   createdAt   |-> ToISOString(task.createdAt),
   updatedAt   |-> ToISOString(task.updatedAt)]

\* an overdue test that does not look at the status
IsOverdueWhateverStatus(task, clock) ==
  Truthy(task.dueDate) /\ task.dueDate.kind = "date" /\ clock > task.dueDate.t

\* Task.isOverdue, lines 104-109
IsOverdue(task, clock) ==
  IF ~Truthy(task.dueDate) \/ task.status = "completed"
    THEN FALSE
    ELSE task.dueDate.kind = "date" /\ clock > task.dueDate.t

-----------------------------------------------------------------------------
(* taskService.js: the Map of tasks, kept as the sequence of its values in  *)
(* insertion order                                                          *)

Ids(store) == {store[i].id : i \in 1..Len(store)}

\* the position of id in the Map, 0 when it is absent
IndexOf(store, id) ==
  IF id \in Ids(store)
    THEN CHOOSE i \in 1..Len(store) : store[i].id = id
    ELSE 0

\* Map.prototype.set: a present key keeps its place
MapSet(store, id, task) ==
  IF IndexOf(store, id) = 0
    THEN Append(store, task)
    ELSE [store EXCEPT ![IndexOf(store, id)] = task]

\* Map.prototype.delete
MapDelete(store, id) == SelectSeq(store, LAMBDA t : t.id # id)

\* initializeSampleData, lines 13-46
SampleTasks ==
  <<NewTask([title       |-> SampleTitle1,
             description |-> SampleDescription1,
             status      |-> "in_progress",
             priority    |-> "high",
             dueDate     |-> DateAt(StartTime + 7 * Day),
             tags        |-> [isArray |-> TRUE,
                              items   |-> <<"documentation", "api">>]],
            StartTime, 1).task,
    NewTask([title       |-> SampleTitle2,
             description |-> SampleDescription2,
             status      |-> "todo",
             priority    |-> "medium",
             dueDate     |-> DateAt(StartTime + 2 * Day),
             tags        |-> [isArray |-> TRUE,
                              items   |-> <<"code-review", "quality">>]],
            StartTime, 2).task,
    NewTask([title       |-> SampleTitle3,
             description |-> SampleDescription3,
             status      |-> "completed",
             priority    |-> "low",
             dueDate     |-> DateAt(StartTime - 1 * Day),
             tags        |-> [isArray |-> TRUE,
                              items   |-> <<"testing", "setup">>]],
            StartTime, 3).task>>

-----------------------------------------------------------------------------
(* getTasks, lines 66-152 *)

\* priorityOrder[p] || 0, lines 105-107
PriorityOrder(p) ==
  CASE p = "high"   -> 3
    [] p = "medium" -> 2
    [] p = "low"    -> 1
    [] OTHER        -> 0

\* aValue / bValue of the comparator, lines 99-120.  type "str": a string,
\* "num": a number or a valid Date (compared by its instant), "iso": the ISO
\* text of an instant (ISO texts compare as their instants do), "nan": the
\* Invalid Date
SortKey(task, sortBy) ==
  CASE sortBy = "priority" ->
         [type |-> "num", s |-> << >>, n |-> PriorityOrder(task.priority)]
    [] sortBy = "dueDate" ->
         IF ~Truthy(task.dueDate)
           THEN [type |-> "num", s |-> << >>, n |-> SentinelDate]
           ELSE IF task.dueDate.kind = "date"
             THEN [type |-> "num", s |-> << >>, n |-> task.dueDate.t]
             ELSE [type |-> "nan", s |-> << >>, n |-> 0]
    [] sortBy = "createdAt" ->
         IF task.createdAt.kind = "date"
           THEN [type |-> "num", s |-> << >>, n |-> task.createdAt.t]
           ELSE [type |-> "iso", s |-> << >>, n |-> task.createdAt.t]
    [] OTHER ->
         [type |-> "str", s |-> ToLowerCase(Chars(task.title)), n |-> 0]

\* a < b of JavaScript: two strings compare as strings, anything else as
\* numbers, and a text that is no number, like the Invalid Date, is NaN
JsLess(a, b) ==
  CASE a.type = "str" /\ b.type = "str" -> StrLess(a.s, b.s)
    [] a.type = "iso" /\ b.type = "iso" -> a.n < b.n
    [] a.type = "num" /\ b.type = "num" -> a.n < b.n
    [] OTHER                            -> FALSE

\* the comparator, lines 96-125
Compare(a, b, filters) ==
  LET aValue == SortKey(a, filters.sortBy)
      bValue == SortKey(b, filters.sortBy)
  IN  IF JsLess(aValue, bValue)
        THEN (IF filters.sortOrder = "desc" THEN 1 ELSE -1)
        ELSE IF JsLess(bValue, aValue)
          THEN (IF filters.sortOrder = "desc" THEN -1 ELSE 1)
          ELSE 0

Reverse(s) == [i \in 1..Len(s) |-> s[Len(s) + 1 - i]]

\* Array.prototype.sort as Node runs it on an array of fewer than 64
\* elements: the leading run is found (a strictly descending one is
\* reversed) and the rest is inserted by binary search.  With a consistent
\* comparator this is the stable sort ECMAScript requires.
RECURSIVE RunEnd(_, _, _, _)
RunEnd(s, filters, idx, descending) ==
  IF idx > Len(s)
    THEN idx - 1
    ELSE LET order == Compare(s[idx], s[idx - 1], filters)
         IN  IF (descending /\ order >= 0) \/ (~descending /\ order < 0)
               THEN idx - 1
               ELSE RunEnd(s, filters, idx + 1, descending)

\* a binary insertion that puts the pivot in front of the elements it equals:
\* the sort it makes is not stable
RECURSIVE InsertionPointBeforeEqual(_, _, _, _, _)
InsertionPointBeforeEqual(s, filters, pivot, left, right) ==
  IF left >= right
    THEN left
    ELSE LET mid == left + ((right - left) \div 2)
         IN  IF Compare(pivot, s[mid], filters) <= 0
               THEN InsertionPointBeforeEqual(s, filters, pivot, left, mid)
               ELSE InsertionPointBeforeEqual(s, filters, pivot, mid + 1, right)

RECURSIVE InsertionPoint(_, _, _, _, _)
InsertionPoint(s, filters, pivot, left, right) ==
  IF left >= right
    THEN left
    ELSE LET mid == left + ((right - left) \div 2)
         IN  IF Compare(pivot, s[mid], filters) < 0
               THEN InsertionPoint(s, filters, pivot, left, mid)
               ELSE InsertionPoint(s, filters, pivot, mid + 1, right)

RECURSIVE BinaryInsertionSort(_, _, _)
BinaryInsertionSort(s, filters, start) ==
  IF start > Len(s)
    THEN s
    ELSE LET pos == InsertionPoint(s, filters, s[start], 1, start)
         IN  BinaryInsertionSort(
               SubSeq(s, 1, pos - 1) \o <<s[start]>>
                 \o SubSeq(s, pos, start - 1) \o SubSeq(s, start + 1, Len(s)),
               filters, start + 1)

ArraySort(s, filters) ==
  IF Len(s) < 2
    THEN s
    ELSE LET descending == Compare(s[2], s[1], filters) < 0
             run        == RunEnd(s, filters, 3, descending)
             made       == IF descending
                             THEN Reverse(SubSeq(s, 1, run))
                                    \o SubSeq(s, run + 1, Len(s))
                             ELSE s
         IN  BinaryInsertionSort(made, filters, run + 1)

\* a search that compares the term as it was typed
MatchesSearchCaseSensitive(task, search) ==
  LET searchTerm == Chars(search)
  IN  \/ Includes(ToLowerCase(Chars(task.title)), searchTerm)
      \/ Includes(ToLowerCase(Chars(task.description)), searchTerm)
      \/ \E i \in 1..Len(task.tags) :
           Includes(ToLowerCase(Chars(task.tags[i])), searchTerm)

\* the search predicate, lines 79-86
MatchesSearch(task, search) ==
  LET searchTerm == ToLowerCase(Chars(search))
  IN  \/ Includes(ToLowerCase(Chars(task.title)), searchTerm)
      \/ Includes(ToLowerCase(Chars(task.description)), searchTerm)
      \/ \E i \in 1..Len(task.tags) :
           Includes(ToLowerCase(Chars(task.tags[i])), searchTerm)

\* the tags predicate, lines 88-92
MatchesTags(task, tags) ==
  \E i \in 1..Len(tags) : ArrayIncludes(task.tags, tags[i])

\* filters in which the priority, when given, replaces the status instead of
\* narrowing it
ApplyFiltersPriorityOverStatus(store, filters) ==
  LET byPriority == IF filters.priority # ""
                      THEN SelectSeq(store,
                                     LAMBDA t : t.priority = filters.priority)
                      ELSE IF filters.status # ""
                        THEN SelectSeq(store,
                                       LAMBDA t : t.status = filters.status)
                        ELSE store
      bySearch   == IF filters.search # ""
                      THEN SelectSeq(byPriority,
                                     LAMBDA t : MatchesSearch(t, filters.search))
                      ELSE byPriority
  IN  IF filters.tags # << >> /\ Len(filters.tags) > 0
        THEN SelectSeq(bySearch, LAMBDA t : MatchesTags(t, filters.tags))
        ELSE bySearch

\* the filters, lines 68-92
ApplyFilters(store, filters) ==
  LET byStatus   == IF filters.status # ""
                      THEN SelectSeq(store, LAMBDA t : t.status = filters.status)
                      ELSE store
      byPriority == IF filters.priority # ""
                      THEN SelectSeq(byStatus,
                                     LAMBDA t : t.priority = filters.priority)
                      ELSE byStatus
      bySearch   == IF filters.search # ""
                      THEN SelectSeq(byPriority,
                                     LAMBDA t : MatchesSearch(t, filters.search))
                      ELSE byPriority
  IN  IF filters.tags # << >> /\ Len(filters.tags) > 0
        THEN SelectSeq(bySearch, LAMBDA t : MatchesTags(t, filters.tags))
        ELSE bySearch

\* the sorting, lines 94-126
ApplySort(filtered, filters) ==
  IF filters.sortBy # "" THEN ArraySort(filtered, filters) ELSE filtered

\* a slice that takes the element at endIndex too
SliceInclusive(s, startIndex, endIndex) ==
  SubSeq(s, startIndex + 1, IF endIndex + 1 < Len(s) THEN endIndex + 1 ELSE Len(s))

\* Array.prototype.slice(startIndex, endIndex) with 0 <= startIndex
Slice(s, startIndex, endIndex) ==
  SubSeq(s, startIndex + 1, IF endIndex < Len(s) THEN endIndex ELSE Len(s))

\* Math.ceil(a / b) for a >= 0 and b > 0
CeilDiv(a, b) == IF a % b = 0 THEN a \div b ELSE (a \div b) + 1

\* a page count that rounds down
TotalPagesFloor(total, limit) == total \div limit

\* the pagination.totalPages field, line 143
TotalPages(total, limit) == CeilDiv(total, limit)

\* a hasNext that is still true on the page that ends the sequence
HasNextInclusive(endIndex, total) == endIndex <= total

\* the pagination.hasNext field, line 144
HasNext(endIndex, total) == endIndex < total

\* the pagination and the result, lines 128-147: the outcome, the page and,
\* for the record, the sorted array it was cut from
Paginate(sortedTasks, pagination) ==
  LET page           == IF pagination.page # 0 THEN pagination.page ELSE DefaultPage
      limit          == IF pagination.limit # 0
                          THEN pagination.limit ELSE DefaultLimit
      startIndex     == (page - 1) * limit
      endIndex       == startIndex + limit
      paginatedTasks == Slice(sortedTasks, startIndex, endIndex)
      throws         == \E i \in 1..Len(paginatedTasks) :
                          ToJSONThrows(paginatedTasks[i])
  IN  [outcome    |-> IF throws THEN "error" ELSE "ok",
       sorted     |-> sortedTasks,
       tasks      |-> IF throws
                        THEN << >>
                        ELSE [i \in 1..Len(paginatedTasks) |->
                                ToJSON(paginatedTasks[i])],
       pagination |-> [page       |-> page,
                       limit      |-> limit,
                       total      |-> Len(sortedTasks),
                       totalPages |-> TotalPages(Len(sortedTasks), limit),
                       hasNext    |-> HasNext(endIndex, Len(sortedTasks)),
                       hasPrev    |-> page > 1]]

\* getTasks, lines 66-152 (the array is filtered and sorted once, then cut)
GetTasksResult(store, filters, pagination) ==
  CHOOSE r \in { Paginate(sortedTasks, pagination) :
                   sortedTasks \in {ApplySort(ApplyFilters(store, filters),
                                              filters)} } : TRUE

-----------------------------------------------------------------------------
(* The service's operations.  last records the latest call: its arguments,  *)
(* how it ended ("ok", "validation", "notfound", or "error" for a TypeError *)
(* or RangeError), what it returned and the store it found.                 *)

\* an id that no task was ever given
UnknownId == 0

\* createTask, lines 49-63
CreateTaskCall(data) ==
  /\ now' = now + 1
  /\ nextId' = IF Has(data, "id") THEN nextId ELSE nextId + 1
  /\ LET built == NewTask(data, now', nextId)
     IN  IF built.errors # << >>
           THEN /\ tasks' = tasks
                /\ last' = [op      |-> "createTask",
                            outcome |-> "validation",
                            data    |-> data,
                            errors  |-> built.errors,
                            before  |-> tasks]
           ELSE /\ tasks' = MapSet(tasks, built.task.id, built.task)
                /\ last' = IF ToJSONThrows(built.task)
                             THEN [op      |-> "createTask",
                                   outcome |-> "error",
                                   data    |-> data,
                                   errors  |-> << >>,
                                   before  |-> tasks]
                             ELSE [op      |-> "createTask",
                                   outcome |-> "ok",
                                   data    |-> data,
                                   errors  |-> << >>,
                                   before  |-> tasks,
                                   result  |-> ToJSON(built.task)]

\* createTask within the bounds of the model
CreateTask(data) ==
  /\ Len(tasks) < MaxTasks
  /\ now < StartTime + MaxSteps
  /\ CreateTaskCall(data)

\* updateTask, lines 171-190.  task.update(updateData) assigns to the object
\* the Map holds; this.tasks.set(id, task) stores that same object again.
UpdateTask(id, data) ==
  /\ now < StartTime + MaxSteps
  /\ now' = now + 1
  /\ nextId' = nextId
  /\ IF IndexOf(tasks, id) = 0
       THEN /\ tasks' = tasks
            /\ last' = [op      |-> "updateTask",
                        outcome |-> "notfound",
                        id      |-> id,
                        data    |-> data,
                        errors  |-> << >>,
                        before  |-> tasks]
       ELSE LET updated == UpdateFields(tasks[IndexOf(tasks, id)], data, now')
            IN  /\ tasks' = [tasks EXCEPT ![IndexOf(tasks, id)] = updated.task]
                /\ last' = IF updated.errors # << >>
                             THEN [op      |-> "updateTask",
                                   outcome |-> "validation",
                                   id      |-> id,
                                   data    |-> data,
                                   errors  |-> updated.errors,
                                   before  |-> tasks]
                             ELSE IF ToJSONThrows(updated.task)
                               THEN [op      |-> "updateTask",
                                     outcome |-> "error",
                                     id      |-> id,
                                     data    |-> data,
                                     errors  |-> << >>,
                                     before  |-> tasks]
                               ELSE [op      |-> "updateTask",
                                     outcome |-> "ok",
                                     id      |-> id,
                                     data    |-> data,
                                     errors  |-> << >>,
                                     before  |-> tasks,
                                     result  |-> ToJSON(updated.task)]

\* deleteTask without the test of lines 197-199: whatever the id, the key
\* is deleted and the call succeeds
DeleteTaskUnchecked(id) ==
  /\ now < StartTime + MaxSteps
  /\ now' = now + 1
  /\ nextId' = nextId
  /\ tasks' = MapDelete(tasks, id)
  /\ last' = [op      |-> "deleteTask",
              outcome |-> "ok",
              id      |-> id,
              before  |-> tasks]

\* getTaskById, lines 155-168: what the call gives on a store
GetTaskByIdResult(store, id) ==
  IF IndexOf(store, id) = 0
    THEN [outcome |-> "notfound"]
    ELSE IF ToJSONThrows(store[IndexOf(store, id)])
      THEN [outcome |-> "error"]
      ELSE [outcome |-> "ok", result |-> ToJSON(store[IndexOf(store, id)])]

\* getTaskById, lines 155-168
GetTaskById(id) ==
  /\ \E r \in {GetTaskByIdResult(tasks, id)} :
       last' = IF r.outcome = "ok"
                 THEN [op      |-> "getTaskById",
                       outcome |-> "ok",
                       id      |-> id,
                       before  |-> tasks,
                       result  |-> r.result]
                 ELSE [op      |-> "getTaskById",
                       outcome |-> r.outcome,
                       id      |-> id,
                       before  |-> tasks]
  /\ UNCHANGED <<tasks, now, nextId>>

\* deleteTask, lines 193-209
DeleteTask(id) ==
  /\ now < StartTime + MaxSteps
  /\ now' = now + 1
  /\ nextId' = nextId
  /\ IF IndexOf(tasks, id) = 0
       THEN /\ tasks' = tasks
            /\ last' = [op      |-> "deleteTask",
                        outcome |-> "notfound",
                        id      |-> id,
                        before  |-> tasks]
       ELSE /\ tasks' = MapDelete(tasks, id)
            /\ last' = [op      |-> "deleteTask",
                        outcome |-> "ok",
                        id      |-> id,
                        before  |-> tasks]

\* clearAllTasks, lines 258-266
ClearAllTasks ==
  /\ now < StartTime + MaxSteps
  /\ now' = now + 1
  /\ nextId' = nextId
  /\ tasks' = << >>
  /\ last' = [op |-> "clearAllTasks", outcome |-> "ok", before |-> tasks]

\* getTasks, lines 66-152.  sorted keeps, by id, the array the page was cut
\* from.
GetTasks(filters, pagination) ==
  /\ \E r \in {GetTasksResult(tasks, filters, pagination)} :
         last' = [op         |-> "getTasks",
                  outcome    |-> r.outcome,
                  filters    |-> filters,
                  asked      |-> pagination,
                  sorted     |-> [i \in 1..Len(r.sorted) |-> r.sorted[i].id],
                  tasks      |-> r.tasks,
                  pagination |-> r.pagination]
  /\ UNCHANGED <<tasks, now, nextId>>

\* "" stands for a filter or sort field that is not given, 0 for a page or a
\* limit that is not given
NoFilters ==
  [status |-> "", priority |-> "", search |-> "", tags |-> << >>,
   sortBy |-> "", sortOrder |-> "asc"]

NoPagination == [page |-> 0, limit |-> 0]

\* a rate cut after its first decimal place
ToFixed1Truncated(numerator, denominator) ==
  (1000 * numerator) \div denominator

\* (numerator / denominator * 100).toFixed(1) for denominator > 0: the text
\* of the nearest decimal with one place, kept as its number of tenths
ToFixed1(numerator, denominator) ==
  (2000 * numerator + denominator) \div (2 * denominator)

\* statusCounts / priorityCounts after the forEach, lines 217-241: the
\* counters of the keys the object starts with, and the keys that
\* counts[key]++ adds for any other value, which hold NaN
CountBy(store, field, keys) ==
  [count |-> [k \in keys |->
                Cardinality({i \in 1..Len(store) : store[i][field] = k})],
   nan   |-> {store[i][field] : i \in 1..Len(store)} \ keys]

\* getTaskStats, lines 212-255.  completionRate is the text toFixed returns
\* (type "string") or the number 0 (type "number").
TaskStats(store, clock) ==
  LET statusCounts   == CountBy(store, "status",
                                {"todo", "in_progress", "completed"})
      priorityCounts == CountBy(store, "priority", {"low", "medium", "high"})
      overdueCount   == Cardinality({i \in 1..Len(store) :
                                       IsOverdue(store[i], clock)})
      totalTasks     == Len(store)
  IN  [total          |-> totalTasks,
       byStatus       |-> statusCounts,
       byPriority     |-> priorityCounts,
       overdue        |-> overdueCount,
       completionRate |->
         IF totalTasks > 0
           THEN [type   |-> "string",
                 tenths |-> ToFixed1(statusCounts.count["completed"],
                                     totalTasks)]
           ELSE [type |-> "number", tenths |-> 0]]

\* getTaskStats, lines 212-255, called at the instant now
GetTaskStats ==
  /\ \E stats \in {TaskStats(tasks, now)} :
       last' = [op |-> "getTaskStats", outcome |-> "ok", stats |-> stats]
  /\ UNCHANGED <<tasks, now, nextId>>

\* two texts of digits without a leading zero compare as the numbers they
\* write
IndexLess(a, b) == Len(a) < Len(b) \/ (Len(a) = Len(b) /\ StrLess(a, b))

\* tagCounts[tag]: a key that is the canonical text of an array index is an
\* integer key of the object
IsIntegerKey(tag) ==
  LET digits == Chars(tag)
  IN  /\ Len(digits) >= 1
      /\ \A i \in 1..Len(digits) : digits[i] \in 48..57
      /\ (Len(digits) > 1 => digits[1] # 48)
      /\ ~IndexLess(MaxArrayIndex, digits)

\* the tags of the tasks of a page, in the order the two forEach loops of
\* lines 403-407 meet them
RECURSIVE TagOccurrences(_)
TagOccurrences(page) ==
  IF page = << >>
    THEN << >>
    ELSE page[1].tags \o TagOccurrences(Tail(page))

\* the keys a sequence of assignments creates, in the order of creation
RECURSIVE InsertionOrder(_)
InsertionOrder(occurrences) ==
  IF occurrences = << >>
    THEN << >>
    ELSE LET before == InsertionOrder(SubSeq(occurrences, 1,
                                             Len(occurrences) - 1))
             key    == occurrences[Len(occurrences)]
         IN  IF ArrayIncludes(before, key) THEN before ELSE Append(before, key)

\* the integer keys of a set in ascending order
RECURSIVE AscendingKeys(_)
AscendingKeys(keys) ==
  IF keys = {}
    THEN << >>
    ELSE LET least == CHOOSE k \in keys :
                        \A other \in keys :
                          ~IndexLess(Chars(other), Chars(k))
         IN  <<least>> \o AscendingKeys(keys \ {least})

\* Object.entries / Object.keys of an object: the integer keys in ascending
\* order, then the other keys in the order of their creation
OwnKeys(created) ==
  AscendingKeys({created[i] : i \in {j \in 1..Len(created) :
                                       IsIntegerKey(created[j])}})
    \o SelectSeq(created, LAMBDA key : ~IsIntegerKey(key))

\* .sort((a, b) => b.count - a.count), line 412: by falling count, entries
\* of equal count in the order they had (Array.prototype.sort is stable)
RECURSIVE SortByCount(_)
SortByCount(entries) ==
  IF entries = << >>
    THEN << >>
    ELSE LET first == CHOOSE i \in 1..Len(entries) :
                        /\ \A j \in 1..Len(entries) :
                             entries[j].count <= entries[i].count
                        /\ \A j \in 1..(i - 1) :
                             entries[j].count < entries[i].count
         IN  <<entries[first]>>
               \o SortByCount(SubSeq(entries, 1, first - 1)
                                \o SubSeq(entries, first + 1, Len(entries)))

\* the body of GET /api/stats/tags for the page getTasks() returned, lines
\* 400-419
TagStatsOf(page) ==
  LET occurrences == TagOccurrences(page)
      keys        == OwnKeys(InsertionOrder(occurrences))
      tagCounts   == [i \in 1..Len(keys) |->
                        [tag   |-> keys[i],
                         count |-> Cardinality({j \in 1..Len(occurrences) :
                                                  occurrences[j] = keys[i]})]]
  IN  [totalTags |-> Len(keys),
       tagCounts |-> tagCounts,
       tagStats  |-> SortByCount(tagCounts)]

\* GET /api/stats/tags, lines 396-428: getTasks() is called with no filters
\* and no pagination; an error it throws is answered 500
GetTagStats ==
  /\ \E r \in {GetTasksResult(tasks, NoFilters, NoPagination)} :
       IF r.outcome # "ok"
         THEN last' = [op |-> "GET /api/stats/tags", outcome |-> "error"]
         ELSE \E stats \in {TagStatsOf(r.tasks)} :
                last' = [op        |-> "GET /api/stats/tags",
                         outcome   |-> "ok",
                         totalTags |-> stats.totalTags,
                         tagCounts |-> stats.tagCounts,
                         tagStats  |-> stats.tagStats]
  /\ UNCHANGED <<tasks, now, nextId>>

\* the filter of the overdue handler, lines 305-310, on a serialized task
OverdueJson(json, clock) ==
  IF ~Truthy(json.dueDate) \/ json.status = "completed"
    THEN FALSE
    ELSE NewDate(json.dueDate).kind = "date" /\ clock > NewDate(json.dueDate).t

\* GET /api/stats/overdue, lines 298-324, called at the instant now
GetOverdue ==
  /\ \E r \in {GetTasksResult(tasks, NoFilters, NoPagination)} :
       IF r.outcome # "ok"
         THEN last' = [op |-> "GET /api/stats/overdue", outcome |-> "error"]
         ELSE last' = [op      |-> "GET /api/stats/overdue",
                       outcome |-> "ok",
                       count   |-> Len(SelectSeq(r.tasks,
                                     LAMBDA json : OverdueJson(json, now))),
                       tasks   |-> SelectSeq(r.tasks,
                                     LAMBDA json : OverdueJson(json, now))]
  /\ UNCHANGED <<tasks, now, nextId>>

\* new Date(task.createdAt).toISOString().split('T')[0], line 440: the UTC
\* calendar day of an ISO text, kept as the number of the day
DateOf(isoText) == isoText.t \div Day

\* .sort((a, b) => new Date(a.date) - new Date(b.date)), line 458: by rising
\* date, rows of the same date in the order they had
RECURSIVE SortByDate(_)
SortByDate(rows) ==
  IF rows = << >>
    THEN << >>
    ELSE LET first == CHOOSE i \in 1..Len(rows) :
                        /\ \A j \in 1..Len(rows) : rows[i].date <= rows[j].date
                        /\ \A j \in 1..(i - 1) : rows[i].date < rows[j].date
         IN  <<rows[first]>>
               \o SortByDate(SubSeq(rows, 1, first - 1)
                               \o SubSeq(rows, first + 1, Len(rows)))

\* the body of GET /api/stats/completion-trend for the page getTasks()
\* returned, lines 437-464
TrendOf(page) ==
  LET \* a key like '1970-01-02' is no integer key: Object.entries lists the
      \* dates in the order of their creation
      dates == InsertionOrder([i \in 1..Len(page) |->
                                 DateOf(page[i].createdAt)])
      row(date) ==
        LET total     == Cardinality({i \in 1..Len(page) :
                                        DateOf(page[i].createdAt) = date})
            completed == Cardinality({i \in 1..Len(page) :
                                        /\ DateOf(page[i].createdAt) = date
                                        /\ page[i].status = "completed"})
        IN  [date           |-> date,
             total          |-> total,
             completed      |-> completed,
             completionRate |->
               IF total > 0
                 THEN [type |-> "string", tenths |-> ToFixed1(completed, total)]
                 ELSE [type |-> "number", tenths |-> 0]]
      trendData == SortByDate([i \in 1..Len(dates) |-> row(dates[i])])
  IN  [trendData |-> trendData, totalDays |-> Len(trendData)]

\* GET /api/stats/completion-trend, lines 432-473: getTasks() is called with
\* no filters and no pagination; an error it throws is answered 500
GetCompletionTrend ==
  /\ \E r \in {GetTasksResult(tasks, NoFilters, NoPagination)} :
       IF r.outcome # "ok"
         THEN last' = [op      |-> "GET /api/stats/completion-trend",
                       outcome |-> "error"]
         ELSE \E trend \in {TrendOf(r.tasks)} :
                last' = [op        |-> "GET /api/stats/completion-trend",
                         outcome   |-> "ok",
                         trendData |-> trend.trendData,
                         totalDays |-> trend.totalDays]
  /\ UNCHANGED <<tasks, now, nextId>>

\* the validators of GET /api/tasks, routes/tasks.js lines 21-32: the fields
\* of the query string that fail ("" and 0 stand for a field that is absent,
\* which optional() lets pass)
QueryValidationErrors(filters, pagination) ==
  SelectSeq(<<"status", "priority", "search", "sortBy", "sortOrder", "page",
              "limit">>,
            LAMBDA field :
              CASE field = "status" ->
                     filters.status \notin {"", "todo", "in_progress", "completed"}
                [] field = "priority" ->
                     filters.priority \notin {"", "low", "medium", "high"}
                [] field = "search" ->
                     /\ filters.search # ""
                     /\ Len(Trim(Chars(filters.search))) \notin 1..MaxSearchLength
                [] field = "sortBy" ->
                     filters.sortBy \notin
                       {"", "title", "priority", "dueDate", "createdAt"}
                [] field = "sortOrder" ->
                     filters.sortOrder \notin {"", "asc", "desc"}
                [] field = "page" -> pagination.page < 0
                [] field = "limit" -> pagination.limit \notin 0..MaxLimit)

\* the handler of GET /api/tasks, routes/tasks.js lines 21-62: a query that
\* fails a validator is answered 400 and never reaches the service
GetApiTasks(filters, pagination) ==
  /\ \E errors \in {QueryValidationErrors(filters, pagination)} :
       IF errors # << >>
         THEN last' = [op      |-> "GET /api/tasks",
                       outcome |-> "validation",
                       filters |-> filters,
                       errors  |-> errors]
         ELSE \E r \in {GetTasksResult(
                           tasks,
                           [filters EXCEPT
                              !.sortOrder = IF filters.sortOrder = ""
                                              THEN "asc" ELSE filters.sortOrder],
                           pagination)} :
                last' = [op      |-> "GET /api/tasks",
                         outcome |-> r.outcome,
                         filters |-> filters,
                         errors  |-> << >>,
                         tasks   |-> r.tasks]
  /\ UNCHANGED <<tasks, now, nextId>>

-----------------------------------------------------------------------------
(* The arguments the operations are called with *)

TagsArray(items) == [isArray |-> TRUE, items |-> items]

CreateInputs ==
  { \* a title only: every other field takes its default
    [title |-> "alpha"],
    \* every field given; due at 23:00 UTC on 31 December 9999
    [title       |-> "New",
     description |-> "Doc",
     status      |-> "completed",
     priority    |-> "high",
     dueDate     |-> IsoText(SentinelDate + 23),
     tags        |-> TagsArray(<<"urgent", "urgent">>)],
    \* createdAt given, as a JSON body gives it: a text
    [title |-> "alpha", createdAt |-> IsoText(StartTime)],
    \* no title and an unknown status
    [status |-> "bogus"] }

UpdateInputs ==
  { \* taken up again at another priority, due an hour after the service
    \* started, with new tags
    [status   |-> "in_progress",
     priority |-> "medium",
     dueDate  |-> IsoText(StartTime + 1),
     tags     |-> TagsArray(<<"urgent", "7">>)],
    \* a valid title with an unknown status
    [title |-> "New", status |-> "bogus"],
    \* a due date that does not parse
    [dueDate |-> GarbageText] }

\* every combination of the four filters, unsorted, on the default page and
\* on page 1 of 1 per page
FilterQueries ==
  { <<[NoFilters EXCEPT !.status = st, !.priority = pr, !.search = se,
                        !.tags = tg],
      NoPagination>> :
      st \in {"", "in_progress"}, pr \in {"", "high"},
      se \in {"", "Doc", "JEST"},
      tg \in {<< >>, <<"api", "testing", "urgent">>} }
    \cup
  { <<[NoFilters EXCEPT !.status = st, !.priority = pr],
      [page |-> 1, limit |-> 1]>> :
      st \in {"", "in_progress"}, pr \in {"", "high"} }

\* every sort field in both orders, on the default page, on page 1 of 1 per
\* page and on pages 1 and 2 of 2 per page
SortQueries ==
  { <<[NoFilters EXCEPT !.sortBy = sb, !.sortOrder = so], pg>> :
      sb \in {"title", "priority", "dueDate", "createdAt"},
      so \in {"asc", "desc"},
      pg \in {NoPagination, [page |-> 1, limit |-> 2],
              [page |-> 2, limit |-> 2]} }

\* pages 1 to 3 (and none given) of 1 to 3 per page (and none given)
PageQueries ==
  { <<NoFilters, [page |-> pg, limit |-> lm]>> :
      pg \in 0..3, lm \in 0..3 }

\* a tags filter together with a sort, on the default page and on page 1 of
\* 2 per page
FilteredSortQueries ==
  { <<[NoFilters EXCEPT !.tags = <<"api", "testing", "urgent">>,
                        !.sortBy = sb, !.sortOrder = so],
      pg>> :
      sb \in {"title", "dueDate"}, so \in {"asc", "desc"},
      pg \in {NoPagination} }

\* a sort order without a sort field, on the default page and on page 1 of
\* 2 per page
OrderOnlyQueries ==
  { <<[NoFilters EXCEPT !.sortOrder = "desc"], pg>> :
      pg \in {NoPagination, [page |-> 1, limit |-> 2]} }

\* a search term alone: in the case of the text it is found in, and in
\* another case
SearchQueries ==
  { <<[NoFilters EXCEPT !.search = se], NoPagination>> :
      se \in {"QUALITY", "doc"} }

\* one value outside its enumerated set in each query
UnknownValueQueries ==
  { <<[NoFilters EXCEPT !.status = "bogus"], NoPagination>>,
    <<[NoFilters EXCEPT !.priority = "bogus"], NoPagination>>,
    <<[NoFilters EXCEPT !.sortBy = "bogus"], NoPagination>>,
    <<[NoFilters EXCEPT !.sortBy = "title", !.sortOrder = "bogus"],
      NoPagination>> }

\* the query strings sent to GET /api/tasks: the unknown values and two
\* queries that pass the validators
ApiQueries ==
  UnknownValueQueries
    \cup { <<[NoFilters EXCEPT !.sortOrder = ""], NoPagination>>,
            <<[NoFilters EXCEPT !.status = "todo", !.sortBy = "title",
                                !.sortOrder = "desc"],
              [page |-> 1, limit |-> 2]>> }

Queries ==
  FilterQueries \cup SortQueries \cup FilteredSortQueries \cup PageQueries
    \cup OrderOnlyQueries \cup UnknownValueQueries \cup SearchQueries

-----------------------------------------------------------------------------

Init ==
  /\ tasks = SampleTasks
  /\ now = StartTime
  /\ nextId = Len(SampleTasks) + 1
  /\ last = [op |-> "init", outcome |-> "ok", before |-> << >>]
  /\ calls = << >>

\* A read changes nothing but last, so every call that follows a read leads
\* to the state it leads to without the read: the calls are explored from
\* the states the writes leave.
ReadOps ==
  {"getTasks", "GET /api/tasks", "getTaskStats", "GET /api/stats/tags",
   "GET /api/stats/completion-trend", "getTaskById",
   "GET /api/stats/overdue"}

AfterWrite == last.op \notin ReadOps

Next ==
  \/ /\ AfterWrite
     /\ \E data \in CreateInputs : CreateTask(data)
     /\ UNCHANGED calls
  \/ /\ AfterWrite
     /\ \E id \in Ids(tasks), data \in UpdateInputs : UpdateTask(id, data)
     /\ UNCHANGED calls
  \/ /\ AfterWrite
     /\ UpdateTask(UnknownId, [status |-> "completed"])
     /\ UNCHANGED calls
  \/ /\ AfterWrite
     /\ \E id \in Ids(tasks) \cup {UnknownId} : DeleteTask(id)
     /\ UNCHANGED calls
  \/ /\ AfterWrite
     /\ ClearAllTasks
     /\ UNCHANGED calls
  \/ /\ AfterWrite
     /\ \E query \in Queries : GetTasks(query[1], query[2])
     /\ UNCHANGED calls
  \/ /\ AfterWrite
     /\ \E query \in ApiQueries : GetApiTasks(query[1], query[2])
     /\ UNCHANGED calls
  \/ /\ AfterWrite
     /\ GetTaskStats
     /\ UNCHANGED calls
  \/ /\ AfterWrite
     /\ GetTagStats
     /\ UNCHANGED calls
  \/ /\ AfterWrite
     /\ GetCompletionTrend
     /\ UNCHANGED calls
  \/ /\ AfterWrite
     /\ \E id \in Ids(tasks) \cup {UnknownId} : GetTaskById(id)
     /\ UNCHANGED calls

Spec == Init /\ [][Next]_vars

\* The store grown past the default page of getTasks: tasks are created,
\* with a due date or with a tag, until the store holds MaxStored of them,
\* and the statistics are asked for.
LargeInputs ==
  { [title |-> "alpha", dueDate |-> IsoText(StartTime + 1)],
    [title |-> "New", status |-> "completed",
     tags |-> TagsArray(<<"urgent">>)] }

NextLarge ==
  \/ /\ AfterWrite
     /\ \E data \in LargeInputs :
          Len(tasks) < MaxStored /\ CreateTaskCall(data)
     /\ UNCHANGED calls
  \/ /\ AfterWrite
     /\ GetTagStats
     /\ UNCHANGED calls
  \/ /\ AfterWrite
     /\ GetCompletionTrend
     /\ UNCHANGED calls
  \/ /\ AfterWrite
     /\ GetOverdue
     /\ UNCHANGED calls

SpecLarge == Init /\ [][NextLarge]_vars

\* The fields of a record.  Tasks are created and updated with field sets
\* that are complete, partial, invalid in one or in several fields, or that
\* carry the fields the service assigns (id, createdAt), and are read back
\* by id.

\* a tags value that is no array: a text
TagsText(text) == [isArray |-> FALSE, items |-> <<text>>]

FieldCreateInputs ==
  { \* a title only
    [title |-> "alpha"],
    \* every field given
    [title       |-> "New",
     description |-> "Doc",
     status      |-> "completed",
     priority    |-> "high",
     dueDate     |-> IsoText(StartTime + Day),
     tags        |-> TagsArray(<<"urgent", "api">>)],
    \* the id of the first sample task given
    [id |-> 1, title |-> "New"],
    \* an empty status, an empty priority and tags that are a text
    [title |-> "New", status |-> "", priority |-> "", tags |-> TagsText("urgent")],
    \* no title, an unknown status, an unknown priority and a due date that
    \* does not parse
    [status |-> "bogus", priority |-> "bogus", dueDate |-> GarbageText],
    \* an unknown status and tags that are a text
    [title |-> "New", status |-> "bogus", tags |-> TagsText("urgent")],
    \* a creation instant given, a day after the service started
    [title |-> "alpha", createdAt |-> DateAt(StartTime + Day)] }

FieldUpdateInputs ==
  { \* a new title, with an id and a creation instant
    [id |-> 9, createdAt |-> DateAt(0), title |-> "New"],
    \* completed, the due date removed
    [status |-> "completed", dueDate |-> NullDate],
    \* tags that are a text
    [tags |-> TagsText("urgent")],
    \* an empty status and an unknown priority
    [status |-> "", priority |-> "bogus"] }

NextFields ==
  \/ /\ AfterWrite
     /\ \E data \in FieldCreateInputs : CreateTask(data)
     /\ UNCHANGED calls
  \/ /\ AfterWrite
     /\ \E id \in Ids(tasks), data \in FieldUpdateInputs :
          UpdateTask(id, data)
     /\ UNCHANGED calls
  \/ /\ AfterWrite
     /\ \E id \in Ids(tasks) : DeleteTask(id)
     /\ UNCHANGED calls
  \/ /\ AfterWrite
     /\ ClearAllTasks
     /\ UNCHANGED calls
  \/ /\ AfterWrite
     /\ \E id \in 1..(nextId - 1) : GetTaskById(id)
     /\ UNCHANGED calls
  \/ /\ AfterWrite
     /\ GetTasks(NoFilters, NoPagination)
     /\ UNCHANGED calls
  \/ /\ AfterWrite
     /\ GetTaskStats
     /\ UNCHANGED calls

SpecFields == Init /\ [][NextFields]_vars

\* Requests in flight.  A request is handled by an async route handler that
\* calls one service method and awaits it (routes/tasks.js lines 50, 132,
\* 194, 299, 325; taskService.js line 282).  calls holds, in the order of
\* arrival, each request with the position of its handler: "issued" (the
\* handler has not run), "assigned" (updateTask is between the assignments
\* of Task.update and its validate()), "returned" (the service method has
\* returned and the handler waits at its await) and "responded".  The
\* service methods have no await in their bodies, and the thread runs one of
\* them at a time.

\* the most requests in flight
MaxCalls == 2

Requests ==
  { [op |-> "createTask", data |-> [title |-> "alpha"]],
    [op |-> "updateTask", id |-> 1,
     data |-> [status |-> "completed", dueDate |-> NullDate]],
    [op |-> "deleteTask", id |-> 2],
    [op |-> "clearAllTasks"],
    [op |-> "getTasks", filters |-> NoFilters, pagination |-> NoPagination],
    [op |-> "getTaskStats"] }

\* the calls that are between two steps of their body
Midway == {c \in 1..Len(calls) : calls[c].pc = "assigned"}

\* a body that starts while another is between two of its steps
ThreadShared == TRUE

\* the thread is free: no body has started and not run to its end
ThreadFree == Midway = {}

\* the store as the last complete write left it
Stable ==
  IF Midway = {}
    THEN tasks
    ELSE calls[CHOOSE c \in Midway : TRUE].before

\* a request arrives
Issue(req) ==
  /\ Len(calls) < MaxCalls
  /\ calls' = Append(calls, [req |-> req, pc |-> "issued"])
  /\ UNCHANGED <<tasks, now, nextId, last>>

\* the handler of call c starts and calls its service method
Starts(c, op) ==
  /\ ThreadFree
  /\ calls[c].pc = "issued"
  /\ calls[c].req.op = op

\* routes/tasks.js line 132: createTask, run from its first line to its last
RunCreate(c) ==
  /\ Starts(c, "createTask")
  /\ CreateTask(calls[c].req.data)
  /\ calls' = [calls EXCEPT ![c] = [req     |-> calls[c].req,
                                    pc      |-> "returned",
                                    outcome |-> last'.outcome]]

\* routes/tasks.js line 299: deleteTask
RunDelete(c) ==
  /\ Starts(c, "deleteTask")
  /\ DeleteTask(calls[c].req.id)
  /\ calls' = [calls EXCEPT ![c] = [req     |-> calls[c].req,
                                    pc      |-> "returned",
                                    outcome |-> last'.outcome]]

\* routes/tasks.js line 325: clearAllTasks
RunClear(c) ==
  /\ Starts(c, "clearAllTasks")
  /\ ClearAllTasks
  /\ calls' = [calls EXCEPT ![c] = [req     |-> calls[c].req,
                                    pc      |-> "returned",
                                    outcome |-> last'.outcome]]

\* Task.update, lines 72-77: the assignments, before updatedAt is set
AssignFields(task, data) ==
  [UpdateFields(task, data, 0).task EXCEPT !.updatedAt = task.updatedAt]

\* routes/tasks.js line 194: updateTask up to the end of the assignments of
\* Task.update (taskService.js lines 173-181, Task.js lines 72-77)
BeginUpdate(c) ==
  /\ Starts(c, "updateTask")
  /\ now < StartTime + MaxSteps
  /\ now' = now + 1
  /\ UNCHANGED <<nextId, last>>
  /\ LET id == calls[c].req.id
     IN  IF IndexOf(tasks, id) = 0
           THEN /\ tasks' = tasks
                /\ calls' = [calls EXCEPT ![c] = [req     |-> calls[c].req,
                                                  pc      |-> "returned",
                                                  outcome |-> "notfound"]]
           ELSE /\ tasks' = [tasks EXCEPT ![IndexOf(tasks, id)] =
                               AssignFields(@, calls[c].req.data)]
                /\ calls' = [calls EXCEPT ![c] = [req    |-> calls[c].req,
                                                  pc     |-> "assigned",
                                                  before |-> tasks]]

\* updateTask from there to its end: updatedAt, validate(), set, toJSON
\* (Task.js lines 80-83, taskService.js lines 184-186)
FinishUpdate(c) ==
  /\ calls[c].pc = "assigned"
  /\ UNCHANGED <<now, nextId>>
  /\ LET id      == calls[c].req.id
         updated == [tasks[IndexOf(tasks, id)] EXCEPT !.updatedAt = DateAt(now)]
         outcome == IF Validate(updated) # << >>
                      THEN "validation"
                      ELSE IF ToJSONThrows(updated) THEN "error" ELSE "ok"
     IN  /\ tasks' = [tasks EXCEPT ![IndexOf(tasks, id)] = updated]
         /\ last' = [op      |-> "updateTask",
                     outcome |-> outcome,
                     id      |-> id,
                     data    |-> calls[c].req.data,
                     errors  |-> Validate(updated),
                     before  |-> calls[c].before]
         /\ calls' = [calls EXCEPT ![c] = [req     |-> calls[c].req,
                                           pc      |-> "returned",
                                           outcome |-> outcome]]

\* routes/tasks.js line 50: getTasks.  seen and at keep the store the last
\* complete write left and the instant of the call.
RunGetTasks(c) ==
  /\ Starts(c, "getTasks")
  /\ GetTasks(calls[c].req.filters, calls[c].req.pagination)
  /\ calls' = [calls EXCEPT ![c] =
                 [req     |-> calls[c].req,
                  pc      |-> "returned",
                  outcome |-> last'.outcome,
                  result  |-> [tasks      |-> last'.tasks,
                               pagination |-> last'.pagination],
                  seen    |-> Stable,
                  at      |-> now]]

\* taskService.js line 282: getTaskStats
RunGetTaskStats(c) ==
  /\ Starts(c, "getTaskStats")
  /\ GetTaskStats
  /\ calls' = [calls EXCEPT ![c] = [req     |-> calls[c].req,
                                    pc      |-> "returned",
                                    outcome |-> last'.outcome,
                                    result  |-> last'.stats,
                                    seen    |-> Stable,
                                    at      |-> now]]

\* the handler goes on after its await and sends what the method returned
Respond(c) ==
  /\ ThreadFree
  /\ calls[c].pc = "returned"
  /\ calls' = [calls EXCEPT ![c].pc = "responded"]
  /\ UNCHANGED <<tasks, now, nextId, last>>

NextConcurrent ==
  \/ \E req \in Requests : Issue(req)
  \/ \E c \in 1..Len(calls) : RunCreate(c)
  \/ \E c \in 1..Len(calls) : RunDelete(c)
  \/ \E c \in 1..Len(calls) : RunClear(c)
  \/ \E c \in 1..Len(calls) : BeginUpdate(c)
  \/ \E c \in 1..Len(calls) : FinishUpdate(c)
  \/ \E c \in 1..Len(calls) : RunGetTasks(c)
  \/ \E c \in 1..Len(calls) : RunGetTaskStats(c)
  \/ \E c \in 1..Len(calls) : Respond(c)

SpecConcurrent == Init /\ [][NextConcurrent]_vars

-----------------------------------------------------------------------------
(* The claims *)

\* the stored task an id names (the store of a getTasks state is the store
\* the call read)
TaskOf(id) == tasks[IndexOf(tasks, id)]

\* a record is valid: the field constraints of the data model
ValidRecord(task) ==
  /\ task.title # ""
  /\ Len(Chars(task.title)) <= 100
  /\ Len(Chars(task.description)) <= 500
  /\ task.status \in {"todo", "in_progress", "completed"}
  /\ task.priority \in {"low", "medium", "high"}
  /\ IsArray(task.tags)

\* a task (stored or serialized) satisfies every filter that was supplied
SearchMatched(task, term) ==
  LET t == ToLowerCase(Chars(term))
  IN  \/ Includes(ToLowerCase(Chars(task.title)), t)
      \/ Includes(ToLowerCase(Chars(task.description)), t)
      \/ \E i \in 1..Len(task.tags) : Includes(ToLowerCase(Chars(task.tags[i])), t)

SatisfiesFilters(task, f) ==
  /\ f.status # "" => task.status = f.status
  /\ f.priority # "" => task.priority = f.priority
  /\ f.search # "" => SearchMatched(task, f.search)
  /\ f.tags # << >> =>
       \E i \in 1..Len(f.tags) : \E k \in 1..Len(task.tags) :
         task.tags[k] = f.tags[i]

\* the serialized form of a stored task is the given one
Serializes(task, json) == ~ToJSONThrows(task) /\ ToJSON(task) = json

\* C1: an update whose merged result violates a field constraint fails with a
\* validation error and leaves the stored record as it was, field by field.
C1_RejectedUpdateLeavesRecord ==
  (last.op = "updateTask" /\ last.outcome = "validation") =>
    LET old == last.before[IndexOf(last.before, last.id)]
        new == TaskOf(last.id)
    IN  /\ new.title = old.title
        /\ new.description = old.description
        /\ new.status = old.status
        /\ new.priority = old.priority
        /\ new.dueDate = old.dueDate
        /\ new.tags = old.tags
        /\ new.updatedAt = old.updatedAt

\* C2: after any sequence of calls, successful or failed, every stored task
\* satisfies the field constraints.
C2_StoredTasksValid == \A i \in 1..Len(tasks) : ValidRecord(tasks[i])

\* C3: a createTask that ends in an error of any kind leaves the store with
\* exactly the records it had.
C3_FailedCreateLeavesStore ==
  (last.op = "createTask" /\ last.outcome # "ok") => tasks = last.before

\* C4: every task of a returned page is a stored task and satisfies every
\* filter supplied (AND over the filters, OR over the requested tags).
C4_PageWithinFilters ==
  (last.op = "getTasks" /\ last.outcome = "ok") =>
    \A i \in 1..Len(last.tasks) :
      /\ \E k \in 1..Len(tasks) : Serializes(tasks[k], last.tasks[i])
      /\ SatisfiesFilters(last.tasks[i], last.filters)

\* a call with several filters returned some tasks and left some out
C4_Witness ==
  /\ last.op = "getTasks" /\ last.outcome = "ok"
  /\ last.filters.priority # "" /\ last.filters.search # ""
  /\ last.filters.tags # << >>
  /\ Len(last.tasks) = 2
  /\ Len(tasks) > 2

\* C5: the total returned is the number of stored tasks satisfying the
\* filters, whatever the page and the limit, and totalPages is
\* ceil(total / limit).
C5_TotalAndTotalPages ==
  (last.op = "getTasks" /\ last.outcome = "ok") =>
    LET total == last.pagination.total
        limit == last.pagination.limit
        pages == last.pagination.totalPages
    IN  /\ total = Cardinality({k \in 1..Len(tasks) :
                                  SatisfiesFilters(tasks[k], last.filters)})
        /\ pages * limit >= total
        /\ (pages - 1) * limit < total \/ (pages = 0 /\ total = 0)

\* a filtered call whose total is no multiple of the limit
C5_Witness ==
  /\ last.op = "getTasks" /\ last.outcome = "ok"
  /\ last.filters.priority # ""
  /\ last.pagination.total = 2 /\ last.pagination.limit = 1
  /\ Len(tasks) > 2

\* the ids of positions (page-1)*limit .. page*limit - 1 (counted from 0) of a
\* sequence of ids
Window(ids, page, limit) ==
  [i \in 1..(IF page * limit < Len(ids)
               THEN limit
               ELSE IF Len(ids) > (page - 1) * limit
                 THEN Len(ids) - (page - 1) * limit ELSE 0) |->
     ids[(page - 1) * limit + i]]

IdsOf(page) == [i \in 1..Len(page) |-> page[i].id]

RECURSIVE ConcatWindows(_, _, _)
ConcatWindows(ids, limit, pages) ==
  IF pages = 0
    THEN << >>
    ELSE ConcatWindows(ids, limit, pages - 1) \o Window(ids, pages, limit)

\* C6: the tasks returned are the positions (page-1)*limit up to page*limit
\* of the filtered and sorted sequence; so the pages that follow page 1 up to
\* totalPages on the unchanged store, each as returned, are the consecutive
\* windows, whose concatenation holds every filtered task once; and a page
\* beyond totalPages is returned empty, without an error.
C6_PageIsSlice ==
  last.op = "getTasks" =>
    LET page  == last.pagination.page
        limit == last.pagination.limit
        pages == last.pagination.totalPages
    IN  /\ last.outcome = "ok" =>
             IdsOf(last.tasks) = Window(last.sorted, page, limit)
        /\ page = 1 =>
             \A p \in 2..pages :
               \A r \in {GetTasksResult(tasks, last.filters,
                                        [page |-> p, limit |-> limit])} :
                 /\ IdsOf(r.sorted) = last.sorted
                 /\ r.outcome = "ok" =>
                      IdsOf(r.tasks) = Window(last.sorted, p, limit)
        /\ ConcatWindows(last.sorted, limit, pages) = last.sorted
        /\ \A k \in 1..Len(tasks) :
             SatisfiesFilters(tasks[k], last.filters) =>
               Cardinality({i \in 1..Len(last.sorted) :
                              last.sorted[i] = tasks[k].id}) = 1
        /\ page > pages => last.outcome = "ok" /\ last.tasks = << >>

\* a sorted call returned a full second page that the sort has reordered
C6_Witness ==
  /\ last.op = "getTasks" /\ last.outcome = "ok"
  /\ last.filters.sortBy # ""
  /\ last.pagination.page = 2 /\ last.pagination.limit = 2
  /\ Len(last.tasks) = 2
  /\ last.sorted # IdsOf(tasks)

\* C7: hasNext is true exactly when page < totalPages, hasPrev exactly when
\* page > 1; page 2 of 2 per page over 3 filtered tasks returns 1 task,
\* hasNext false, hasPrev true and totalPages 2.
C7_HasNextHasPrev ==
  (last.op = "getTasks" /\ last.outcome = "ok") =>
    /\ last.pagination.hasNext =
         (last.pagination.page < last.pagination.totalPages)
    /\ last.pagination.hasPrev = (last.pagination.page > 1)
    /\ (last.asked = [page |-> 2, limit |-> 2] /\ last.pagination.total = 3) =>
         /\ Len(last.tasks) = 1
         /\ last.pagination.hasNext = FALSE
         /\ last.pagination.hasPrev = TRUE
         /\ last.pagination.totalPages = 2

\* page 2 of 2 per page over 3 filtered tasks
C7_Witness ==
  /\ last.op = "getTasks" /\ last.outcome = "ok"
  /\ last.asked = [page |-> 2, limit |-> 2]
  /\ last.pagination.total = 3

\* the sort key a claim speaks of: the lower-cased title, the rank of the
\* priority, the instant of the due date or of the creation; a due date that
\* is no instant has no key, a task without a due date is left to C9, and a
\* field that is none of the four gives no key
ClaimKey(task, sortBy) ==
  CASE sortBy = "title" ->
         [has |-> TRUE, type |-> "str",
          s |-> ToLowerCase(Chars(task.title)), n |-> 0]
    [] sortBy = "priority" ->
         [has |-> task.priority \in {"low", "medium", "high"}, type |-> "num",
          s |-> << >>,
          n |-> CASE task.priority = "high" -> 3
                  [] task.priority = "medium" -> 2
                  [] OTHER -> 1]
    [] sortBy = "dueDate" ->
         [has |-> task.dueDate.kind = "date", type |-> "num", s |-> << >>,
          n |-> task.dueDate.t]
    [] sortBy = "createdAt" ->
         [has |-> TRUE, type |-> "num", s |-> << >>, n |-> task.createdAt.t]
    [] OTHER ->
         [has |-> FALSE, type |-> "num", s |-> << >>, n |-> 0]

KeyLess(a, b) == IF a.type = "str" THEN StrLess(a.s, b.s) ELSE a.n < b.n

KeyEqual(a, b) == a.has /\ b.has /\ ~KeyLess(a, b) /\ ~KeyLess(b, a)

Undated(task) == task.dueDate.kind = "null"

\* C8: two consecutive tasks of the sorted sequence have keys in
\* non-decreasing order for asc and in non-increasing order for desc.
C8_SortedByKey ==
  (last.op = "getTasks" /\ last.outcome = "ok"
     /\ last.filters.sortBy \in {"title", "priority", "dueDate", "createdAt"}) =>
    \A i \in 1..(Len(last.sorted) - 1) :
      LET a  == TaskOf(last.sorted[i])
          b  == TaskOf(last.sorted[i + 1])
          ka == ClaimKey(a, last.filters.sortBy)
          kb == ClaimKey(b, last.filters.sortBy)
      IN  \/ last.filters.sortBy = "dueDate" /\ (Undated(a) \/ Undated(b))
          \/ /\ ka.has /\ kb.has
             /\ IF last.filters.sortOrder = "desc"
                  THEN ~KeyLess(ka, kb) ELSE ~KeyLess(kb, ka)

\* C9: sorted by dueDate ascending, every task without a due date comes after
\* every task that has one.
C9_UndatedLast ==
  (last.op = "getTasks" /\ last.outcome = "ok"
     /\ last.filters.sortBy = "dueDate" /\ last.filters.sortOrder # "desc") =>
    \A i \in 1..Len(last.sorted) : \A j \in 1..Len(last.sorted) :
      (i < j /\ Undated(TaskOf(last.sorted[i])))
        => TaskOf(last.sorted[j]).dueDate.kind # "date"

\* C10: the sort is stable: in both orders, two tasks with equal sort keys
\* keep the relative order they had before the sort (the order of the store,
\* which the filters keep), and the sort loses and adds no filtered task.
C10_StableSort ==
  (last.op = "getTasks" /\ last.filters.sortBy # "") =>
    /\ \A i \in 1..Len(last.sorted) : \A j \in 1..Len(last.sorted) :
         (i < j /\ KeyEqual(ClaimKey(TaskOf(last.sorted[i]), last.filters.sortBy),
                            ClaimKey(TaskOf(last.sorted[j]), last.filters.sortBy)))
           => IndexOf(tasks, last.sorted[i]) < IndexOf(tasks, last.sorted[j])
    /\ \A k \in 1..Len(tasks) :
         Cardinality({i \in 1..Len(last.sorted) : last.sorted[i] = tasks[k].id})
           = (IF SatisfiesFilters(tasks[k], last.filters) THEN 1 ELSE 0)

\* a descending sort moved a task in front of two tasks of equal key, which
\* kept their order
C10_Witness ==
  /\ last.op = "getTasks" /\ last.filters.sortOrder = "desc"
  /\ last.filters.sortBy = "priority"
  /\ Len(last.sorted) >= 3
  /\ last.sorted # IdsOf(tasks)
  /\ \E i \in 1..Len(last.sorted) : \E j \in 1..Len(last.sorted) :
       /\ i < j
       /\ TaskOf(last.sorted[i]).priority = TaskOf(last.sorted[j]).priority

\* C11: with no sortBy given, the tasks come ordered by createdAt, the default
\* sort key, in the order asked for (ascending when none is given).
C11_DefaultSortIsCreatedAt ==
  (last.op = "getTasks" /\ last.outcome = "ok" /\ last.filters.sortBy = "") =>
    \A i \in 1..(Len(last.sorted) - 1) :
      LET ka == ClaimKey(TaskOf(last.sorted[i]), "createdAt")
          kb == ClaimKey(TaskOf(last.sorted[i + 1]), "createdAt")
      IN  IF last.filters.sortOrder = "desc"
            THEN ~KeyLess(ka, kb) ELSE ~KeyLess(kb, ka)

OutsideEnumeration(f) ==
  \/ f.status \notin {"", "todo", "in_progress", "completed"}
  \/ f.priority \notin {"", "low", "medium", "high"}
  \/ f.sortBy \notin {"", "title", "priority", "dueDate", "createdAt"}
  \/ f.sortOrder \notin {"", "asc", "desc"}

\* C12: a query with a status, priority, sortBy or sortOrder outside its
\* enumerated set is rejected by getTasks with a validation error and gets
\* no result page.
C12_UnknownValuesRejected ==
  (last.op = "getTasks" /\ OutsideEnumeration(last.filters)) =>
    last.outcome = "validation"

\* the same term in other letter cases
OtherCases(term) ==
  CASE term = "Doc" -> {"doc", "DOC"}
    [] term = "doc" -> {"Doc", "DOC"}
    [] term = "JEST" -> {"jest"}
    [] term = "QUALITY" -> {"quality"}
    [] OTHER -> {}

\* the term, lower-cased, is part of the lower-cased title, of the lower-cased
\* description or of a lower-cased tag
TermFound(task, term) ==
  \E text \in {task.title, task.description}
                \cup {task.tags[i] : i \in 1..Len(task.tags)} :
    Includes(ToLowerCase(Chars(text)), ToLowerCase(Chars(term)))

C14_OverdueCount ==
  last.op = "getTaskStats" =>
    /\ last.stats.overdue =
         Cardinality({k \in 1..Len(tasks) :
                        /\ tasks[k].dueDate.kind = "date"
                        /\ tasks[k].dueDate.t < now
                        /\ tasks[k].status # "completed"})
    /\ (/\ Len(tasks) = 3
        /\ \E i, j, k \in 1..3 :
             /\ tasks[i].status = "completed" /\ tasks[i].dueDate.kind = "date"
             /\ tasks[i].dueDate.t < now
             /\ tasks[j].status = "todo" /\ tasks[j].dueDate.kind = "date"
             /\ tasks[j].dueDate.t > now
             /\ tasks[k].status = "in_progress" /\ Undated(tasks[k]))
         => last.stats.overdue = 0

\* one task is overdue while a completed task with a past due date is not
\* counted
C14_Witness ==
  /\ last.op = "getTaskStats"
  /\ last.stats.overdue = 1
  /\ \A k \in 1..Len(tasks) : ValidRecord(tasks[k])
  /\ \E k \in 1..Len(tasks) :
       /\ tasks[k].status = "completed"
       /\ tasks[k].dueDate.kind = "date" /\ tasks[k].dueDate.t < now

\* C15: completionRate is completed / total * 100 rounded to one decimal
\* place when there are tasks (33.3 for 1 of 3) and the number 0 on an empty
\* store; getTaskStats does not fail.
C15_CompletionRate ==
  last.op = "getTaskStats" =>
    LET total     == Len(tasks)
        completed == Cardinality({k \in 1..Len(tasks) :
                                    tasks[k].status = "completed"})
        rate      == last.stats.completionRate
    IN  /\ last.outcome = "ok"
        /\ total = 0 => rate = [type |-> "number", tenths |-> 0]
        /\ total > 0 =>
             /\ 2 * (rate.tenths * total - 1000 * completed) <= total
             /\ 2 * (1000 * completed - rate.tenths * total) <= total
        /\ (total = 3 /\ completed = 1) => rate.tenths = 333

\* the statistics of the empty store
C15_Witness ==
  /\ last.op = "getTaskStats" /\ last.outcome = "ok"
  /\ tasks = << >>
  /\ last.stats.total = 0

\* the number of stored tasks that carry a tag
TasksCarrying(tag) ==
  Cardinality({k \in 1..Len(tasks) : ArrayIncludes(tasks[k].tags, tag)})

\* C16: in the tag statistics the count of a tag is the number of tasks that
\* carry it; a task that lists the tag more than once adds 1.
C16_TagCountsTasks ==
  (last.op = "GET /api/stats/tags" /\ last.outcome = "ok") =>
    \A i \in 1..Len(last.tagStats) :
      last.tagStats[i].count = TasksCarrying(last.tagStats[i].tag)

\* the place at which a scan of the stored tasks first meets a tag
FirstMet(tag) ==
  LET occurrences == TagOccurrences(tasks)
  IN  CHOOSE i \in 1..Len(occurrences) :
        /\ occurrences[i] = tag
        /\ \A j \in 1..(i - 1) : occurrences[j] # tag

\* C18: tagStats is in the order of falling count, and tags of equal count
\* are in the order in which the scan of the snapshot first met them.
C18_TagStatsOrder ==
  (last.op = "GET /api/stats/tags" /\ last.outcome = "ok") =>
    \A i \in 1..(Len(last.tagStats) - 1) :
      LET a == last.tagStats[i]
          b == last.tagStats[i + 1]
      IN  \/ a.count > b.count
          \/ a.count = b.count /\ FirstMet(a.tag) < FirstMet(b.tag)

\* the tags the stored tasks carry
StoredTags ==
  UNION {{tasks[k].tags[i] : i \in 1..Len(tasks[k].tags)} : k \in 1..Len(tasks)}

RECURSIVE SumOfTotals(_)
SumOfTotals(rows) ==
  IF rows = << >> THEN 0 ELSE rows[1].total + SumOfTotals(Tail(rows))

\* C17: the tag statistics and the completion trend are computed over every
\* stored task: totalTags is the number of distinct tags of all stored tasks
\* and the totals of the trend rows add up to the number of stored tasks.
C17_StatisticsOverWholeStore ==
  /\ (last.op = "GET /api/stats/tags" /\ last.outcome = "ok") =>
       last.totalTags = Cardinality(StoredTags)
  /\ (last.op = "GET /api/stats/completion-trend" /\ last.outcome = "ok") =>
       SumOfTotals(last.trendData) = Len(tasks)

\* the UTC calendar day on which a stored task was created
CreatedOn(task) == task.createdAt.t \div Day

\* C19: the completion trend has one row for each UTC calendar day on which
\* a stored task was created, in strictly rising order of the dates; the
\* total of a row is the number of tasks created on its day and its
\* completed the number of those that are completed now.
C19_CompletionTrendRows ==
  (last.op = "GET /api/stats/completion-trend" /\ last.outcome = "ok") =>
    LET rows == last.trendData
    IN  /\ {rows[i].date : i \in 1..Len(rows)}
             = {CreatedOn(tasks[k]) : k \in 1..Len(tasks)}
        /\ \A i \in 1..(Len(rows) - 1) : rows[i].date < rows[i + 1].date
        /\ \A i \in 1..Len(rows) :
             /\ rows[i].total =
                  Cardinality({k \in 1..Len(tasks) :
                                 CreatedOn(tasks[k]) = rows[i].date})
             /\ rows[i].completed =
                  Cardinality({k \in 1..Len(tasks) :
                                 /\ CreatedOn(tasks[k]) = rows[i].date
                                 /\ tasks[k].status = "completed"})
             /\ rows[i].completed <= rows[i].total

\* C20: getTaskById, updateTask and deleteTask called with an id that the
\* store does not hold each end in the not-found error, and the store after
\* the call is the store the call found.
C20_UnknownIdNotFound ==
  (/\ last.op \in {"getTaskById", "updateTask", "deleteTask"}
   /\ last.id \notin Ids(last.before))
    => /\ last.outcome = "notfound"
       /\ tasks = last.before

\* deleteTask was called with an id it does not hold, on a store with tasks
\* in it, after a task of that store had been deleted
C20_Witness ==
  /\ last.op = "deleteTask"
  /\ last.id \notin Ids(last.before)
  /\ last.outcome = "notfound"
  /\ Len(tasks) = Len(SampleTasks) - 1
  /\ tasks = last.before

\* what is in the store after a step: a task of the given id
Holds(store, id) == GetTaskByIdResult(store, id).outcome # "notfound"

\* C21: after deleteTask(id) has succeeded, and after clearAllTasks, no call
\* that follows brings the id back: getTaskById(id) on the store the next
\* call leaves still ends in not-found.
C21_DeletedStaysGone ==
  [][/\ (last.op = "deleteTask" /\ last.outcome = "ok")
          => ~Holds(tasks', last.id)
     /\ last.op = "clearAllTasks"
          => \A id \in Ids(last.before) : ~Holds(tasks', id)]_vars

\* the six fields a caller sets
CallerFields ==
  {"title", "description", "status", "priority", "dueDate", "tags"}

\* a field set that is valid: only fields a caller sets, a title of 1 to 100
\* characters, a description of at most 500, a status and a priority of
\* their enumerations, a due date that is null or the text of an instant,
\* tags that are a sequence
ValidFieldSet(data) ==
  /\ DOMAIN data \subseteq CallerFields
  /\ Has(data, "title") /\ data.title # ""
  /\ Len(Chars(data.title)) <= 100
  /\ Has(data, "description") => Len(Chars(data.description)) <= 500
  /\ Has(data, "status") => data.status \in {"todo", "in_progress", "completed"}
  /\ Has(data, "priority") => data.priority \in {"low", "medium", "high"}
  /\ Has(data, "dueDate") => data.dueDate.kind \in {"null", "string"}
  /\ Has(data, "tags") => data.tags.isArray

\* the record has the values of the field set, and the documented default
\* where the field set has none
CarriesFields(json, data) ==
  /\ json.title = data.title
  /\ json.description = (IF Has(data, "description") THEN data.description ELSE "")
  /\ json.status = (IF Has(data, "status") THEN data.status ELSE "todo")
  /\ json.priority = (IF Has(data, "priority") THEN data.priority ELSE "medium")
  /\ json.dueDate = (IF Has(data, "dueDate") THEN data.dueDate ELSE NullDate)
  /\ json.tags = (IF Has(data, "tags") THEN data.tags.items ELSE << >>)

SuppliesInvalidValue(data) ==
  \/ Has(data, "title") /\ (data.title = "" \/ Len(Chars(data.title)) > 100)
  \/ Has(data, "description") /\ Len(Chars(data.description)) > 500
  \/ Has(data, "status") /\ data.status \notin {"todo", "in_progress", "completed"}
  \/ Has(data, "priority") /\ data.priority \notin {"low", "medium", "high"}
  \/ Has(data, "dueDate") /\ data.dueDate.kind \notin {"null", "string", "date"}
  \/ Has(data, "tags") /\ ~data.tags.isArray

\* C23: a createTask or an updateTask of a stored task whose data supply a
\* value that violates the constraint of its field ends in a validation
\* error; the value is not replaced by a default or an empty list and stored.
C23_InvalidValueRejected ==
  (/\ last.op \in {"createTask", "updateTask"}
   /\ last.outcome # "notfound"
   /\ SuppliesInvalidValue(last.data))
    => last.outcome = "validation"

\* the fields a call asks the record to have: those of its data and, for
\* what the data leave out, those of the record it updates (for a create:
\* the defaults)
AskedRecord(base, data) ==
  [field \in CallerFields |->
     IF Has(data, field) THEN data[field] ELSE base[field]]

\* what a create starts from
DefaultFields ==
  [title |-> "", description |-> "", status |-> "todo", priority |-> "medium",
   dueDate |-> NullDate, tags |-> TagsArray(<< >>)]

\* what an update starts from: the stored task
StoredFields(task) ==
  [title |-> task.title, description |-> task.description,
   status |-> task.status, priority |-> task.priority,
   dueDate |-> task.dueDate, tags |-> TagsArray(task.tags)]

\* the rules the asked record violates
ViolatedRules(asked) ==
  {rule \in {"title_required", "title_length", "description_length",
              "status", "priority", "dueDate", "tags"} :
     CASE rule = "title_required" ->
            asked.title = "" \/ Len(Trim(Chars(asked.title))) = 0
       [] rule = "title_length" -> Len(Chars(asked.title)) > 100
       [] rule = "description_length" -> Len(Chars(asked.description)) > 500
       [] rule = "status" ->
            asked.status \notin {"todo", "in_progress", "completed"}
       [] rule = "priority" -> asked.priority \notin {"low", "medium", "high"}
       [] rule = "dueDate" -> asked.dueDate.kind \in {"garbage", "invalid"}
       [] rule = "tags" -> ~asked.tags.isArray}

\* the record the last create or update asked for
LastAsked ==
  IF last.op = "createTask"
    THEN AskedRecord(DefaultFields, last.data)
    ELSE AskedRecord(StoredFields(last.before[IndexOf(last.before, last.id)]),
                     last.data)

\* C24: the validation error of a create or an update lists every rule the
\* asked record violates, each once, and no other.
C24_EveryViolationListed ==
  (last.op \in {"createTask", "updateTask"} /\ last.outcome = "validation")
    => /\ {last.errors[i] : i \in 1..Len(last.errors)} = ViolatedRules(LastAsked)
       /\ Len(last.errors) = Cardinality(ViolatedRules(LastAsked))

\* C25: every stored task has a creation instant and an update instant, and
\* the update instant is not before the creation instant.
C25_UpdatedNotBeforeCreated ==
  \A i \in 1..Len(tasks) :
    /\ tasks[i].createdAt.kind = "date"
    /\ tasks[i].updatedAt.kind = "date"
    /\ tasks[i].updatedAt.t >= tasks[i].createdAt.t

\* C26: a successful updateTask(id, partial) leaves the store with the same
\* tasks in the same places; the task of the id keeps its id, its creation
\* instant and every field that partial does not have, also when partial has
\* an id or a createdAt; every other task is as it was.
C26_UpdateChangesGivenFieldsOnly ==
  (last.op = "updateTask" /\ last.outcome = "ok") =>
    /\ Len(tasks) = Len(last.before)
    /\ \A i \in 1..Len(last.before) :
         IF last.before[i].id = last.id
           THEN /\ tasks[i].id = last.before[i].id
                /\ tasks[i].createdAt = last.before[i].createdAt
                /\ \A field \in CallerFields \ DOMAIN last.data :
                     tasks[i][field] = last.before[i][field]
                /\ last.result.id = last.id
           ELSE tasks[i] = last.before[i]

\* an update whose partial has an id and a createdAt gave the second sample
\* task a new title
C26_Witness ==
  /\ last.op = "updateTask" /\ last.outcome = "ok"
  /\ Has(last.data, "id") /\ Has(last.data, "createdAt")
  /\ last.id = 2
  /\ \E i \in 1..Len(tasks) :
       /\ tasks[i].id = 2
       /\ tasks[i].title = "New"
       /\ tasks[i].description = SampleDescription2
       /\ last.before[i].title = SampleTitle2
  /\ Len(tasks) >= 3

\* C27: a successful createTask returns an id the store did not hold, and
\* leaves the store with one task more: the tasks it held, each as it was
\* and in its place, and the new one.
C27_CreateAddsOneRecord ==
  (last.op = "createTask" /\ last.outcome = "ok") =>
    /\ last.result.id \notin Ids(last.before)
    /\ Len(tasks) = Len(last.before) + 1
    /\ \A i \in 1..Len(last.before) : tasks[i] = last.before[i]
    /\ tasks[Len(tasks)].id = last.result.id

\* the sum of the counts of an object of counts
RECURSIVE SumOfCounts(_, _)
SumOfCounts(count, keys) ==
  IF keys = {}
    THEN 0
    ELSE LET k == CHOOSE x \in keys : TRUE
         IN  count[k] + SumOfCounts(count, keys \ {k})

\* C29: getTaskStats returns byStatus with the keys todo, in_progress and
\* completed and no other, byPriority with low, medium and high and no
\* other, and the counts of each add up to total, the number of stored
\* tasks.
C29_StatsKeysAndSums ==
  last.op = "getTaskStats" =>
    /\ last.stats.byStatus.nan = {}
    /\ last.stats.byPriority.nan = {}
    /\ DOMAIN last.stats.byStatus.count = {"todo", "in_progress", "completed"}
    /\ DOMAIN last.stats.byPriority.count = {"low", "medium", "high"}
    /\ last.stats.total = Len(tasks)
    /\ SumOfCounts(last.stats.byStatus.count,
                   DOMAIN last.stats.byStatus.count) = last.stats.total
    /\ SumOfCounts(last.stats.byPriority.count,
                   DOMAIN last.stats.byPriority.count) = last.stats.total

\* C30: the count the overdue handler returns is the overdue figure
\* getTaskStats gives on the same store at the same instant.
C30_OverdueCountsAgree ==
  (last.op = "GET /api/stats/overdue" /\ last.outcome = "ok") =>
    last.count = TaskStats(tasks, now).overdue

\* C28: whatever the order in which the handlers of the requests in flight
\* run, what getTasks or getTaskStats returned, and what is sent when the
\* handler goes on, is what the method computes on the store that the last
\* complete write left: no result shows a store between two steps of a
\* write.
C28_ReadsSeeCompleteWrites ==
  \A c \in 1..Len(calls) :
    calls[c].pc \in {"returned", "responded"} =>
      CASE calls[c].req.op = "getTasks" ->
             \A r \in {GetTasksResult(calls[c].seen, calls[c].req.filters,
                                      calls[c].req.pagination)} :
               /\ calls[c].outcome = r.outcome
               /\ calls[c].result =
                    [tasks |-> r.tasks, pagination |-> r.pagination]
        [] calls[c].req.op = "getTaskStats" ->
             calls[c].result = TaskStats(calls[c].seen, calls[c].at)
        [] OTHER -> TRUE

\* a getTasks request arrived before an updateTask request and its handler
\* ran after the update was complete: the page shows the updated task
C28_Witness ==
  /\ Len(calls) = 2
  /\ calls[1].req.op = "getTasks" /\ calls[1].pc = "responded"
  /\ calls[2].req.op = "updateTask" /\ calls[2].pc = "returned"
  /\ calls[2].outcome = "ok"
  /\ \E i \in 1..Len(calls[1].result.tasks) :
       /\ calls[1].result.tasks[i].id = 1
       /\ calls[1].result.tasks[i].status = "completed"

====
